---- MODULE Spec2Model ----
(***************************************************************************)
(* Duplex audio streaming session of the live-voice and streaming-         *)
(* transcription components.  Three components share the same engine:      *)
(*   "LiveInterface"  src/components/LiveInterface.tsx                      *)
(*   "LiveVoice"      src/unnamed/part_006 (voice selection, auto-connect)  *)
(*   "Transcriber"    src/components/Transcriber.tsx (capture only)         *)
(* One behaviour is the lifetime of one mounted component instance.         *)
(* Time is counted in sample periods of the 24 kHz output context, so a     *)
(* frame of n samples lasts exactly n time units.                           *)
(***************************************************************************)
EXTENDS Integers, Sequences, FiniteSets, TLC

\* ---------------------------------------------------------------- bounds
MaxAttempts == 2
MaxBlocks == 2
MaxTime == 3
MaxCursor == 4
SchedWindow == 2
MaxBadFrames == 1
MaxBytes == 4
MaxSamples == 2
MaxBins == 2
MaxKeyChecks == 2
MaxQueries == 2
MaxSelects == 1
MaxJobs == 1

Attempts == 1..MaxAttempts
Variants == {"LiveInterface", "LiveVoice", "Transcriber"}
\* the capture blocks of a session: silence, and one sample at 0.3 of full scale
CaptureBlocks == {<<0>>, <<300>>}
\* the readings of the output analyser during a session
FrameReadings == {<<0>>, <<255>>}
\* what the message of a transport error says
ErrorTexts == {"other", "entity"}
\* what translations.apiKey.keyNotFound says: a text with "API Key" in it, or, as with
\* the table of src/utils/localization.ts, nothing
KeyTexts == {"API Key", "empty"}
\* how a file transcription ends
FileResults == {"ok", "fail", "nokey", "entity"}
\* byte length of an inbound audio payload
PayloadLens == {0, 2, 3, 4}
\* names of the platform errors that fail a device acquisition
ErrorKinds == {"NotAllowedError", "NotFoundError", "NotReadableError", "TrackStartError",
               "AbortError"}
\* what a message shown after a failed device acquisition can say about the cause
DeviceErrors == {"permission-denied", "not-found", "busy", "unknown", "device"}
\* voices offered by the voice selection
Voices == {"Kore", "Puck"}
\* byte values of the buffers given to the transport-text encoding
SampleBytes == {0, 1, 127, 128, 255}
\* sample values of a capture block, in thousandths of full scale
SampleLevels == {-1000, -300, 0, 100, 300, 1000}
\* byte values of the bins of an analyser reading
BinLevels == {0, 40, 60, 255}
\* entry of a promise reaction queue: 0 is the close request, n > 0 sends block n
CloseReq == 0

VARIABLES
  variant,        \* which component this instance is
  mounted,        \* the component is mounted
  isConnected,    \* useState isConnected / isStreaming: the value last set
  isMuted,        \* useState isMuted
  volumeLevel,    \* useState volumeLevel / streamVolume, thousandths
  error,          \* useState error: "none" or the kind of message last set
  streamRef, inputAudioContextRef, outputAudioContextRef, outputAnalyserRef,
  inputSourceRef, processorRef, sessionRef,   \* refs: 0 is null, a > 0 the object made by attempt a
  animationFrameRef, \* a frame of the visualiser loop is requested and not cancelled
  nextStartTimeRef, \* the playback cursor
  outNow,         \* currentTime of the context held by outputAudioContextRef
  nAtt,           \* number of connect attempts started
  st,             \* per attempt: position of the attempt and of its channel
  capMuted,       \* per attempt: isMuted captured by the closure of connectToLive
  promise,        \* per attempt: state of sessionPromise
  thens,          \* per attempt: reactions registered on the pending sessionPromise
  streamLive, inCtxOpen, outCtxOpen, procOn,  \* objects of attempts not yet released
  permPending,    \* number of permissions.query calls of the auto-connect effect in flight
  permMuted,      \* per query in flight: isMuted captured by the effect's closure
  permLive,       \* per query in flight: isConnected was set when the effect ran
  blockSeq,       \* number of capture blocks pulled
  frames,         \* per attempt: blocks that became frames, in capture order
  sent,           \* per attempt: blocks handed to sendRealtimeInput, in call order
  sched,          \* frames scheduled for playback, in arrival order
  tornAt,         \* per attempt: "acquiring" or "live" when disconnect first ran during it, else "none"
  selectedVoice,  \* useState selectedVoice
  permVoice,      \* per query in flight: selectedVoice captured by the effect's closure
  voice,          \* per attempt: voiceName given to live.connect
  badFrames,        \* number of inbound payloads received with a framing error
  sigOp,          \* which signal function this instance exercises, "none" for a session
  buf,            \* a byte buffer given to the codec or to the transport-text encoding
  pcmOut,         \* the bytes of float32ToInt16 applied to the decoded buf
  txtOut,         \* the bytes of base64ToArrayBuffer applied to the encoded buf
  block,          \* a capture block, samples in thousandths
  bins,           \* a reading of the output analyser, one byte per bin
  aiVolumeLevel,  \* useState aiVolumeLevel / aiVolume, thousandths
  closes,         \* per attempt: number of calls of s.close() on its channel
  tearLog,        \* the steps that the most recent disconnect performed, in order
  raised,         \* a call made by a disconnect has failed
  apiKeySet,      \* process.env.API_KEY is not empty
  aistudio,       \* window.aistudio is defined
  hasApiKey,      \* useState hasApiKey of Transcriber.tsx
  keyChecks,      \* number of checkApiKeyStatus calls awaiting hasSelectedApiKey()
  selecting,      \* number of handleSelectApiKey calls awaiting openSelectKey()
  rendered,       \* the state that the last render committed
  audioFile,      \* useState audioFile of Transcriber.tsx is not null
  isProcessing,   \* useState isProcessing of Transcriber.tsx
  fileChecks,     \* number of handleTranscribeFile calls awaiting hasSelectedApiKey()
  fileRuns        \* number of handleTranscribeFile calls awaiting the transcription

vars == <<variant, mounted, isConnected, isMuted, volumeLevel, error,
          streamRef, inputAudioContextRef, outputAudioContextRef, outputAnalyserRef,
          inputSourceRef, processorRef, sessionRef, animationFrameRef,
          nextStartTimeRef, outNow, nAtt, st, capMuted, promise, thens,
          streamLive, inCtxOpen, outCtxOpen, procOn,
          permPending, permMuted, permLive, blockSeq, frames, sent, sched, tornAt,
          selectedVoice, permVoice, voice, badFrames,
          sigOp, buf, pcmOut, txtOut, block, bins, aiVolumeLevel,
          closes, tearLog, raised, apiKeySet, aistudio, hasApiKey, keyChecks, selecting,
          rendered, audioFile, isProcessing, fileChecks, fileRuns>>

uiVars == <<isMuted, mounted, variant>>
\* the refs to what a session holds
heldRefs == <<streamRef, inputAudioContextRef, outputAudioContextRef, outputAnalyserRef,
              inputSourceRef, processorRef, sessionRef>>
refVars == <<streamRef, inputAudioContextRef, outputAudioContextRef, outputAnalyserRef,
             inputSourceRef, processorRef, sessionRef, animationFrameRef>>
devVars == <<streamLive, inCtxOpen, outCtxOpen, procOn>>
playVars == <<nextStartTimeRef, outNow, sched>>
capVars == <<blockSeq, frames, sent>>
voiceVars == <<selectedVoice, permVoice, voice>>
sigVars == <<sigOp, buf, pcmOut, txtOut, block, bins>>
tearVars == <<closes, tearLog, raised>>
permVars == <<permPending, permMuted, permLive>>
envVars == <<apiKeySet, aistudio>>
keyVars == <<apiKeySet, aistudio, hasApiKey, keyChecks, selecting>>
fileVars == <<audioFile, isProcessing, fileChecks, fileRuns>>

Min(a, b) == IF a < b THEN a ELSE b
HasOutput == variant # "Transcriber"
HasMute == variant # "Transcriber"
\* initializeAudio / startStreaming await resume() of a suspended context
HasResume == variant # "LiveInterface"
\* a state setter of a component: without effect once the component is unmounted
SetState(old, new) == IF mounted THEN new ELSE old

\* React renders the updates that a callback of a promise, of the channel, of the
\* capture node or of an animation frame makes in a later task (Render), and so it
\* does the updates made inside the mount effect and inside the effect on the voice;
\* the updates that the handler of a click makes are rendered before the next event.
\* The buttons and the select act as they were rendered last.  Latest is the state
\* that the next render will commit.
Latest == [isConnected |-> isConnected, volumeLevel |-> volumeLevel, error |-> error,
           hasApiKey |-> hasApiKey, isProcessing |-> isProcessing]
\* what the buttons rendered last were rendered with
ShownConnected == rendered.isConnected
ShownHasApiKey == rendered.hasApiKey
ShownProcessing == rendered.isProcessing

\* an attempt whose device acquisition has not finished yet
Acquiring(a) == st[a] \in {"acquiring", "resuming"}
\* an attempt that is still on its way to Connected
InFlight(a) == st[a] \in {"keycheck", "acquiring", "resuming", "opening"}
\* an attempt that is on its way to Connected or whose channel is open
Live(a) == InFlight(a) \/ st[a] = "open"

\* the state of a component right after it mounted and its mount effects ran: the
\* voice is the one the application read from its saved settings, the auto-connect
\* effect has queried the microphone permission, and the transcriber has called
\* checkApiKeyStatus
InitSession ==
  /\ variant \in Variants
  /\ mounted = TRUE
  /\ isConnected = FALSE
  /\ isMuted = FALSE
  /\ volumeLevel = 0
  /\ apiKeySet \in (IF variant = "LiveInterface" THEN {TRUE} ELSE BOOLEAN)
  /\ aistudio \in (IF variant = "Transcriber" THEN BOOLEAN ELSE {FALSE})
  /\ hasApiKey = FALSE
  /\ keyChecks = (IF variant = "Transcriber" /\ aistudio THEN 1 ELSE 0)
  /\ selecting = 0
  /\ error = (IF variant = "Transcriber" /\ ~aistudio THEN "apikey" ELSE "none")
  /\ streamRef = 0 /\ inputAudioContextRef = 0 /\ outputAudioContextRef = 0
  /\ outputAnalyserRef = 0 /\ inputSourceRef = 0 /\ processorRef = 0 /\ sessionRef = 0
  /\ animationFrameRef = FALSE
  /\ nextStartTimeRef = 0
  /\ outNow = 0
  /\ nAtt = 0
  /\ st = [a \in Attempts |-> "none"]
  /\ capMuted = [a \in Attempts |-> FALSE]
  /\ promise = [a \in Attempts |-> "none"]
  /\ thens = [a \in Attempts |-> <<>>]
  /\ streamLive = {} /\ inCtxOpen = {} /\ outCtxOpen = {} /\ procOn = {}
  /\ selectedVoice \in (IF variant = "LiveVoice" THEN Voices ELSE {"Kore"})
  /\ permPending = (IF variant = "LiveVoice" THEN 1 ELSE 0)
  /\ permMuted = (IF variant = "LiveVoice" THEN <<FALSE>> ELSE <<>>)
  /\ permLive = (IF variant = "LiveVoice" THEN <<FALSE>> ELSE <<>>)
  /\ permVoice = (IF variant = "LiveVoice" THEN <<selectedVoice>> ELSE <<>>)
  /\ blockSeq = 0
  /\ frames = [a \in Attempts |-> <<>>]
  /\ sent = [a \in Attempts |-> <<>>]
  /\ sched = <<>>
  /\ tornAt = [a \in Attempts |-> "none"]
  /\ voice = [a \in Attempts |-> "none"]
  /\ badFrames = 0
  /\ aiVolumeLevel = 0
  /\ closes = [a \in Attempts |-> 0]
  /\ tearLog = <<>>
  /\ raised = FALSE
  /\ pcmOut = <<>> /\ txtOut = <<>>
  /\ audioFile = FALSE
  /\ isProcessing = FALSE
  /\ fileChecks = 0 /\ fileRuns = 0
  /\ rendered = [isConnected |-> FALSE, volumeLevel |-> 0, error |-> "none",
                 hasApiKey |-> FALSE, isProcessing |-> FALSE]

Init ==
  /\ InitSession
  /\ sigOp = "none"
  /\ buf = <<>>
  /\ block = <<>>
  /\ bins = <<>>

\* ------------------------------------------------------------ teardown
\* s.close() on the channel of attempt a
CloseChannel(s, a) == IF s[a] = "open" THEN [s EXCEPT ![a] = "closing"] ELSE s

\* the order in which disconnect / stopStreaming goes through what the session holds
TeardownOrder ==
  CASE variant = "LiveInterface" ->
         <<"processor", "source", "stream", "inputContext", "outputContext", "analyser",
           "channel">>
    [] variant = "LiveVoice" ->
         <<"processor", "source", "analyser", "stream", "inputContext", "outputContext",
           "channel">>
    [] OTHER -> <<"processor", "source", "stream", "inputContext", "channel">>

\* the ref that a step of the teardown looks at is not null
Held(step) ==
  CASE step = "processor" -> processorRef # 0
    [] step = "source" -> inputSourceRef # 0
    [] step = "stream" -> streamRef # 0
    [] step = "inputContext" -> inputAudioContextRef # 0
    [] step = "outputContext" -> outputAudioContextRef # 0
    [] step = "analyser" -> outputAnalyserRef # 0
    [] OTHER -> sessionRef # 0

\* the number of close requests in a reaction queue
ClosesIn(q) == Len(SelectSeq(q, LAMBDA x : x = CloseReq))

\* a teardown that keeps a handle after releasing what it refers to
HandleKept(h) == h

\* ref.current = null
HandleReleased(h) == 0

\* close() of an audio context that is closed already rejects: the teardown closes
\* the context of a ref that is not null
CloseRaises ==
  \/ inputAudioContextRef # 0 /\ inputAudioContextRef \notin inCtxOpen
  \/ outputAudioContextRef # 0 /\ outputAudioContextRef \notin outCtxOpen

\* disconnect / stopStreaming; stBase is st as left by the calling handler, again
\* tells that stopStreaming() runs a second time within the step, and checks is the
\* number of checkApiKeyStatus() calls that the step starts
Teardown(stBase, again, checks) ==
  /\ variant = "Transcriber" => keyChecks + checks <= MaxKeyChecks
  /\ keyChecks' = IF variant = "Transcriber" THEN keyChecks + checks ELSE keyChecks
  /\ tearLog' = IF again THEN <<>> ELSE SelectSeq(TeardownOrder, Held)
  /\ raised' = (raised \/ CloseRaises)
  /\ isConnected' = FALSE
  /\ volumeLevel' = 0
  /\ aiVolumeLevel' = 0
  /\ animationFrameRef' = FALSE
  /\ procOn' = procOn \ {processorRef}
  /\ processorRef' = HandleReleased(processorRef)
  /\ inputSourceRef' = HandleReleased(inputSourceRef)
  /\ streamLive' = streamLive \ {streamRef}
  /\ streamRef' = HandleReleased(streamRef)
  /\ inCtxOpen' = inCtxOpen \ {inputAudioContextRef}
  /\ inputAudioContextRef' = HandleReleased(inputAudioContextRef)
  /\ outCtxOpen' = outCtxOpen \ {outputAudioContextRef}
  /\ outputAudioContextRef' = HandleReleased(outputAudioContextRef)
  /\ outputAnalyserRef' = HandleReleased(outputAnalyserRef)
  /\ IF sessionRef = 0
       THEN st' = stBase /\ thens' = thens /\ closes' = closes
       ELSE IF promise[sessionRef] = "resolved"
         THEN /\ st' = CloseChannel(stBase, sessionRef) /\ thens' = thens
              /\ closes' = [closes EXCEPT ![sessionRef] = @ + 1]
         ELSE /\ st' = stBase /\ thens' = [thens EXCEPT ![sessionRef] = Append(@, CloseReq)]
              /\ closes' = closes
  /\ sessionRef' = HandleReleased(sessionRef)
  /\ tornAt' = [a \in Attempts |->
                  IF tornAt[a] = "none" /\ Live(a) /\ stBase[a] = st[a]
                    THEN (IF Acquiring(a) THEN "acquiring" ELSE "live")
                    ELSE tornAt[a]]

\* disconnect / stopStreaming called by a handler
Disconnect(stBase) == Teardown(stBase, FALSE, 0)

\* every variable but st that a teardown writes
tornVars == <<tearVars, isConnected, volumeLevel, aiVolumeLevel, refVars, devVars, thens,
              tornAt, keyChecks>>

\* ------------------------------------------------------------- connect
\* the voiceName of the speechConfig given to live.connect
VoiceName(v) ==
  CASE variant = "LiveVoice" -> v
    [] variant = "LiveInterface" -> "Kore"
    [] OTHER -> "none"

\* connectToLive / startStreaming reaches its first await: a connect attempt starts
\* m and v are isMuted and selectedVoice as seen by the closure that runs
StartAttempt(m, v) ==
  /\ nAtt < MaxAttempts
  /\ nAtt' = nAtt + 1
  /\ error' = SetState(error, "none")
  /\ st' = [st EXCEPT ![nAtt + 1] = IF variant = "Transcriber" THEN "keycheck" ELSE "acquiring"]
  /\ capMuted' = [capMuted EXCEPT ![nAtt + 1] = m]
  /\ voice' = [voice EXCEPT ![nAtt + 1] = VoiceName(v)]

\* connectToLive / startStreaming up to its first await or to its return.
\* part_006 throws before the first await when process.env.API_KEY is empty: its
\* catch shows the key message and calls disconnect().  startStreaming returns with
\* the key message when window.aistudio is undefined.
BeginConnect(m, v) ==
  CASE variant = "LiveVoice" /\ ~apiKeySet ->
         /\ error' = SetState(error, "apikey")
         /\ Disconnect(st)
         /\ UNCHANGED <<nAtt, capMuted, voice>>
    [] variant = "Transcriber" /\ ~aistudio ->
         /\ error' = SetState(error, "apikey")
         /\ UNCHANGED <<nAtt, st, capMuted, voice, tornVars>>
    [] OTHER ->
         /\ StartAttempt(m, v)
         /\ UNCHANGED tornVars

\* the Start Conversation / record button, rendered while isConnected / isStreaming
\* is rendered as false; the transcriber renders it with
\* disabled={isProcessing || !hasApiKey}.  The updates of the click are rendered
\* before the next event.
ConnectToLive ==
  /\ mounted /\ ~ShownConnected
  /\ variant = "Transcriber" => ShownHasApiKey /\ ~ShownProcessing
  /\ BeginConnect(isMuted, selectedVoice)
  /\ rendered' = IF variant = "LiveVoice" /\ ~apiKeySet
                   THEN [rendered EXCEPT !.error = error', !.isConnected = FALSE,
                                         !.volumeLevel = 0]
                   ELSE [rendered EXCEPT !.error = error']
  /\ UNCHANGED <<sigVars, fileVars, envVars, hasApiKey, selecting, badFrames, selectedVoice, permVoice,
                 uiVars, playVars, capVars, promise, permVars>>

\* startStreaming: hasSelectedApiKey() resolved.  With a selected key and an empty
\* process.env.API_KEY the first statement of the try throws the text txt of
\* translations.apiKey.keyNotFound: when it has "API Key" in it the catch shows it
\* and clears hasApiKey, otherwise the catch shows a set-up failure; then it calls
\* stopStreaming().
KeyCheckDone(a, ok, txt) ==
  /\ st[a] = "keycheck"
  /\ CASE ~ok ->
            /\ hasApiKey' = SetState(hasApiKey, FALSE)
            /\ st' = [st EXCEPT ![a] = "failed"]
            /\ error' = SetState(error, "apikey")
            /\ UNCHANGED tornVars
       [] ok /\ apiKeySet ->
            /\ hasApiKey' = SetState(hasApiKey, TRUE)
            /\ st' = [st EXCEPT ![a] = "acquiring"]
            /\ error' = error
            /\ UNCHANGED tornVars
       [] OTHER ->
            /\ hasApiKey' = SetState(hasApiKey, txt # "API Key")
            /\ error' = SetState(error, IF txt = "API Key" THEN "apikey" ELSE "device")
            /\ Disconnect([st EXCEPT ![a] = "failed"])
  /\ UNCHANGED <<sigVars, fileVars, rendered, envVars, selecting, badFrames, voiceVars,
                 uiVars, playVars, capVars, nAtt, capMuted, promise, permVars>>

\* checkApiKeyStatus: hasSelectedApiKey() resolved
KeyStatusDone(ok) ==
  /\ keyChecks > 0
  /\ keyChecks' = keyChecks - 1
  /\ hasApiKey' = SetState(hasApiKey, ok)
  /\ error' = IF ok THEN error ELSE SetState(error, "apikey")
  /\ UNCHANGED <<sigVars, fileVars, rendered, tearVars, envVars, selecting, aiVolumeLevel, badFrames, voiceVars,
                 uiVars, isConnected, volumeLevel, refVars, devVars, playVars, capVars,
                 nAtt, st, capMuted, promise, thens, permVars, tornAt>>

\* handleSelectApiKey: the select-key button, rendered while hasApiKey is false
SelectApiKey ==
  /\ variant = "Transcriber" /\ mounted /\ ~ShownHasApiKey
  /\ IF aistudio
       THEN /\ selecting < MaxSelects
            /\ selecting' = selecting + 1
            /\ error' = error
       ELSE /\ error' = "apikey"
            /\ selecting' = selecting
  /\ rendered' = IF aistudio THEN rendered ELSE [rendered EXCEPT !.error = "apikey"]
  /\ UNCHANGED <<sigVars, fileVars, tearVars, envVars, hasApiKey, keyChecks, aiVolumeLevel, badFrames,
                 voiceVars, uiVars, isConnected, volumeLevel, refVars, devVars, playVars,
                 capVars, nAtt, st, capMuted, promise, thens, permVars, tornAt>>

\* handleSelectApiKey: openSelectKey() resolved
SelectKeyDone ==
  /\ selecting > 0 /\ keyChecks < MaxKeyChecks
  /\ selecting' = selecting - 1
  /\ hasApiKey' = SetState(hasApiKey, TRUE)
  /\ error' = SetState(error, "none")
  /\ keyChecks' = keyChecks + 1
  /\ UNCHANGED <<sigVars, fileVars, rendered, tearVars, envVars, aiVolumeLevel, badFrames,
                 voiceVars, uiVars, isConnected, volumeLevel, refVars, devVars, playVars,
                 capVars, nAtt, st, capMuted, promise, thens, permVars, tornAt>>

\* the rest of initializeAudio after the last await, and the call of live.connect
FinishAcquire(a) ==
  /\ inputAudioContextRef' = a
  /\ outputAudioContextRef' = IF HasOutput THEN a ELSE outputAudioContextRef
  /\ outputAnalyserRef' = IF HasOutput THEN a ELSE outputAnalyserRef
  /\ outNow' = IF HasOutput THEN 0 ELSE outNow
  /\ promise' = [promise EXCEPT ![a] = "pending"]
  /\ sessionRef' = a
  /\ st' = [st EXCEPT ![a] = "opening"]

\* getUserMedia resolved: the stream is stored and the contexts are created
AcquireOk(a, suspended) ==
  /\ st[a] = "acquiring"
  /\ suspended => HasResume
  /\ streamRef' = a
  /\ streamLive' = streamLive \cup {a}
  /\ inCtxOpen' = inCtxOpen \cup {a}
  /\ outCtxOpen' = IF HasOutput THEN outCtxOpen \cup {a} ELSE outCtxOpen
  /\ IF suspended
       THEN /\ st' = [st EXCEPT ![a] = "resuming"]
            /\ UNCHANGED <<inputAudioContextRef, outputAudioContextRef, outputAnalyserRef,
                           outNow, promise, sessionRef>>
       ELSE FinishAcquire(a)
  /\ UNCHANGED <<sigVars, fileVars, rendered, tearVars, keyVars, aiVolumeLevel, badFrames, voiceVars,
                 uiVars, isConnected, volumeLevel, error, inputSourceRef, processorRef,
                 animationFrameRef,
                 procOn, nextStartTimeRef, sched, capVars, nAtt, capMuted, thens,
                 permVars, tornAt>>

\* the awaited resume() of the suspended contexts resolved
ResumeDone(a) ==
  /\ st[a] = "resuming"
  /\ FinishAcquire(a)
  /\ UNCHANGED <<sigVars, fileVars, rendered, tearVars, keyVars, aiVolumeLevel, badFrames, voiceVars,
                 uiVars, isConnected, volumeLevel, error, streamRef, inputSourceRef,
                 processorRef, animationFrameRef, devVars, nextStartTimeRef, sched, capVars, nAtt, capMuted,
                 thens, permVars, tornAt>>

\* the catch of initializeAudio / startStreaming, then the catch around it: what the
\* message shown says about a platform error of name k
DeviceMessage(k) ==
  IF variant = "LiveInterface"
    THEN CASE k \in {"NotAllowedError", "PermissionDeniedError"} -> "permission-denied"
           [] k \in {"NotFoundError", "DevicesNotFoundError"} -> "not-found"
           [] k \in {"NotReadableError", "TrackStartError"} -> "busy"
           [] OTHER -> "unknown"
    ELSE "device"

\* getUserMedia or resume rejected: catch of initializeAudio, then catch of connectToLive
AcquireFail(a, k) ==
  /\ Acquiring(a)
  /\ error' = SetState(error, DeviceMessage(k))
  /\ Disconnect([st EXCEPT ![a] = "failed"])
  /\ UNCHANGED <<sigVars, fileVars, rendered, envVars, hasApiKey, selecting, badFrames, voiceVars,
                 uiVars, playVars, capVars, nAtt, capMuted, promise,
                 permVars>>

\* ------------------------------------------------- channel callbacks
\* onopen
OnOpen(a) ==
  /\ st[a] = "opening"
  /\ st' = [st EXCEPT ![a] = "open"]
  /\ isConnected' = SetState(isConnected, TRUE)
  /\ inputSourceRef' = a
  /\ processorRef' = a
  /\ procOn' = procOn \cup {a}
  /\ promise' = [promise EXCEPT ![a] = "ready"]
  /\ UNCHANGED <<sigVars, fileVars, rendered, tearVars, keyVars, aiVolumeLevel, badFrames,
                 voiceVars,
                 uiVars, volumeLevel, error, streamRef, inputAudioContextRef,
                 outputAudioContextRef, outputAnalyserRef, sessionRef, animationFrameRef,
                 streamLive, inCtxOpen,
                 outCtxOpen, playVars, capVars, nAtt, capMuted, thens, permVars, tornAt>>

\* the blocks of a reaction queue, last registered first
RECURSIVE SendsOfReversed(_)
SendsOfReversed(q) ==
  IF q = <<>> THEN <<>>
  ELSE IF Head(q) = CloseReq THEN SendsOfReversed(Tail(q))
  ELSE SendsOfReversed(Tail(q)) \o <<Head(q)>>

\* the blocks of a reaction queue, in the order they were registered
RECURSIVE SendsOf(_)
SendsOf(q) ==
  IF q = <<>> THEN <<>>
  ELSE IF Head(q) = CloseReq THEN SendsOf(Tail(q))
  ELSE <<Head(q)>> \o SendsOf(Tail(q))

HasClose(q) == \E i \in 1..Len(q) : q[i] = CloseReq

\* sessionPromise resolves: its reactions run in registration order
Resolve(a) ==
  /\ promise[a] = "ready"
  /\ promise' = [promise EXCEPT ![a] = "resolved"]
  /\ sent' = [sent EXCEPT ![a] = @ \o SendsOf(thens[a])]
  /\ st' = IF HasClose(thens[a]) THEN CloseChannel(st, a) ELSE st
  /\ closes' = [closes EXCEPT ![a] = @ + ClosesIn(thens[a])]
  /\ thens' = [thens EXCEPT ![a] = <<>>]
  /\ UNCHANGED <<sigVars, fileVars, rendered, tearLog, raised, keyVars, aiVolumeLevel, badFrames, voiceVars,
                 uiVars, isConnected, volumeLevel, error, refVars, devVars, playVars,
                 blockSeq, frames, nAtt, capMuted, permVars, tornAt>>

\* the transcriber is told that the selected key is unknown
KeyUnknown(m) == variant = "Transcriber" /\ m = "entity"

\* onerror, for a channel that is opening or open, with a message of kind m; the
\* transcriber asks for another key when the message says
\* "Requested entity was not found."
OnError(a, m) ==
  /\ st[a] \in {"opening", "open"}
  /\ error' = SetState(error, IF KeyUnknown(m) THEN "reselect-key" ELSE "transport")
  /\ hasApiKey' = IF KeyUnknown(m) THEN SetState(hasApiKey, FALSE) ELSE hasApiKey
  /\ Disconnect([st EXCEPT ![a] = "closing"])
  /\ UNCHANGED <<sigVars, fileVars, rendered, envVars, selecting, badFrames, voiceVars,
                 uiVars, playVars, capVars, nAtt, capMuted, promise,
                 permVars>>

\* onclose, after an error, after s.close() or when the remote side closes; the
\* transcriber's handler ends with checkApiKeyStatus()
OnClose(a) ==
  /\ st[a] \in {"open", "closing"}
  /\ error' = IF variant = "LiveInterface" THEN error ELSE SetState(error, "closed")
  /\ Teardown([st EXCEPT ![a] = "closed"], FALSE, IF variant = "Transcriber" THEN 1 ELSE 0)
  /\ UNCHANGED <<sigVars, fileVars, rendered, envVars, hasApiKey, selecting, badFrames, voiceVars,
                 uiVars, playVars, capVars, nAtt, capMuted, promise,
                 permVars>>

\* --------------------------------------------------------- user actions
\* the End Call / stop button, rendered while isConnected / isStreaming is rendered
\* as true; the transcriber renders it with disabled={!hasApiKey}.  The updates of
\* the click are rendered before the next event: in the transcriber isStreaming is
\* rendered as false, the cleanup of the effect on [isStreaming] calls
\* stopStreaming() once more and the effect calls checkApiKeyStatus().
EndCall ==
  /\ mounted /\ ShownConnected
  /\ variant = "Transcriber" => ShownHasApiKey
  /\ Teardown(st, variant = "Transcriber", IF variant = "Transcriber" THEN 1 ELSE 0)
  /\ rendered' = [rendered EXCEPT !.isConnected = FALSE, !.volumeLevel = 0]
  /\ UNCHANGED <<sigVars, fileVars, envVars, hasApiKey, selecting, badFrames, voiceVars,
                 uiVars, error, playVars, capVars, nAtt, capMuted, promise,
                 permVars>>

\* toggleMute; the button is rendered while isConnected is rendered as true
ToggleMute ==
  /\ mounted /\ ShownConnected /\ HasMute
  /\ isMuted' = ~isMuted
  /\ UNCHANGED <<sigVars, fileVars, rendered, tearVars, keyVars, aiVolumeLevel, badFrames, voiceVars,
                 mounted, variant, isConnected, volumeLevel, error, refVars, devVars,
                 playVars, capVars, nAtt, st, capMuted, promise, thens, permVars, tornAt>>

\* the cleanup effects run when the component unmounts, and the updates not yet
\* rendered are dropped.  The live components call disconnect(); the transcriber's
\* cleanup is the one of the effect that ran last, if (isStreaming) stopStreaming()
\* with the isStreaming of that render.
Unmount ==
  /\ mounted
  /\ mounted' = FALSE
  /\ error' = rendered.error
  /\ hasApiKey' = rendered.hasApiKey
  /\ isProcessing' = rendered.isProcessing
  /\ IF variant = "Transcriber" /\ ~rendered.isConnected
       THEN /\ isConnected' = FALSE
            /\ volumeLevel' = rendered.volumeLevel
            /\ UNCHANGED <<st, tearVars, aiVolumeLevel, refVars, devVars, thens,
                           tornAt, keyChecks>>
       ELSE Teardown(st, FALSE, 0)
  /\ UNCHANGED <<sigVars, rendered, audioFile, fileChecks, fileRuns, envVars, selecting,
                 badFrames, voiceVars,
                 isMuted, variant, playVars, capVars, nAtt, capMuted, promise,
                 permVars>>

\* handleFileUpload: a file is chosen; the input is rendered with
\* disabled={isProcessing || isStreaming || !hasApiKey}
FileUpload ==
  /\ variant = "Transcriber" /\ mounted
  /\ ~ShownProcessing /\ ~ShownConnected /\ ShownHasApiKey
  /\ audioFile' = TRUE
  /\ error' = "none"
  /\ rendered' = [rendered EXCEPT !.error = "none"]
  /\ UNCHANGED <<sigVars, isProcessing, fileChecks, fileRuns, tearVars, keyVars,
                 aiVolumeLevel, badFrames, voiceVars, uiVars, isConnected, volumeLevel,
                 refVars, devVars, playVars, capVars, nAtt, st, capMuted, promise, thens,
                 permVars, tornAt>>

\* handleTranscribeFile up to its first await or to its return; the button is
\* rendered once a file is chosen, with
\* disabled={isProcessing || isStreaming || !hasApiKey}
TranscribeFile ==
  /\ variant = "Transcriber" /\ mounted /\ audioFile
  /\ ~ShownProcessing /\ ~ShownConnected /\ ShownHasApiKey
  /\ IF aistudio
       THEN /\ fileChecks + fileRuns < MaxJobs
            /\ fileChecks' = fileChecks + 1
            /\ UNCHANGED <<error, rendered>>
       ELSE /\ error' = "apikey"
            /\ rendered' = [rendered EXCEPT !.error = "apikey"]
            /\ fileChecks' = fileChecks
  /\ UNCHANGED <<sigVars, audioFile, isProcessing, fileRuns, tearVars, keyVars,
                 aiVolumeLevel, badFrames, voiceVars, uiVars, isConnected, volumeLevel,
                 refVars, devVars, playVars, capVars, nAtt, st, capMuted, promise, thens,
                 permVars, tornAt>>

\* handleTranscribeFile: hasSelectedApiKey() resolved
FileKeyDone(ok) ==
  /\ fileChecks > 0
  /\ fileChecks' = fileChecks - 1
  /\ hasApiKey' = SetState(hasApiKey, ok)
  /\ IF ok
       THEN /\ isProcessing' = SetState(isProcessing, TRUE)
            /\ error' = SetState(error, "none")
            /\ fileRuns' = fileRuns + 1
       ELSE /\ error' = SetState(error, "apikey")
            /\ UNCHANGED <<isProcessing, fileRuns>>
  /\ UNCHANGED <<sigVars, rendered, audioFile, tearVars, envVars, keyChecks, selecting,
                 aiVolumeLevel, badFrames, voiceVars, uiVars, isConnected, volumeLevel,
                 refVars, devVars, playVars, capVars, nAtt, st, capMuted, promise, thens,
                 permVars, tornAt>>

\* handleTranscribeFile: blobToBase64 and transcribeAudioFile settled with result r.
\* transcribeAudioFile throws "API Key not found. ..." when process.env.API_KEY is
\* empty and calls the service otherwise.
FileDone(r) ==
  /\ fileRuns > 0
  /\ r = "nokey" => ~apiKeySet
  /\ r \in {"ok", "entity"} => apiKeySet
  /\ fileRuns' = fileRuns - 1
  /\ isProcessing' = SetState(isProcessing, FALSE)
  /\ hasApiKey' = IF r \in {"nokey", "entity"} THEN SetState(hasApiKey, FALSE) ELSE hasApiKey
  /\ error' = CASE r = "ok" -> error
                [] r = "nokey" -> SetState(error, "apikey")
                [] r = "entity" -> SetState(error, "reselect-key")
                [] OTHER -> SetState(error, "transcribe")
  /\ UNCHANGED <<sigVars, rendered, audioFile, fileChecks, tearVars, envVars, keyChecks,
                 selecting, aiVolumeLevel, badFrames, voiceVars, uiVars, isConnected,
                 volumeLevel, refVars, devVars, playVars, capVars, nAtt, st, capMuted,
                 promise, thens, permVars, tornAt>>

\* the voice select is rendered with disabled={isConnected}
VoiceSelectEnabled == mounted /\ ~ShownConnected

\* the select changes selectedVoice: the component is rendered with it, the cleanup
\* of the effect on [selectedVoice] calls disconnect() and the effect queries the
\* microphone permission; what disconnect() sets is set inside an effect and is
\* rendered later
VoiceChange(v) ==
  /\ variant = "LiveVoice" /\ VoiceSelectEnabled /\ permPending < MaxQueries
  /\ v # selectedVoice
  /\ selectedVoice' = v
  /\ Disconnect(st)
  /\ rendered' = rendered
  /\ permPending' = permPending + 1
  /\ permMuted' = Append(permMuted, isMuted)
  /\ permLive' = Append(permLive, isConnected)
  /\ permVoice' = Append(permVoice, v)
  /\ UNCHANGED <<sigVars, fileVars, envVars, hasApiKey, selecting, badFrames, voice,
                 uiVars, error, playVars, capVars, nAtt, capMuted, promise>>

\* a sequence without its element i
Remove(q, i) == SubSeq(q, 1, i - 1) \o SubSeq(q, i + 1, Len(q))

\* how a permissions.query settles: with the state granted, with another state, or
\* with a rejection
PermStates == {"granted", "denied", "rejected"}

\* the permissions.query of the i-th outstanding checkMicAndConnect settled
PermResult(i, g) ==
  /\ i \in 1..permPending
  /\ permPending' = permPending - 1
  /\ permMuted' = Remove(permMuted, i)
  /\ permLive' = Remove(permLive, i)
  /\ permVoice' = Remove(permVoice, i)
  /\ CASE g = "granted" ->
            /\ BeginConnect(permMuted[i], permVoice[i])
       [] g = "rejected" ->
            /\ error' = SetState(error, "permission")
            /\ UNCHANGED <<nAtt, st, capMuted, voice, tornVars>>
       [] OTHER -> UNCHANGED <<error, nAtt, st, capMuted, voice, tornVars>>
  /\ UNCHANGED <<sigVars, fileVars, rendered, envVars, hasApiKey, selecting, badFrames, selectedVoice,
                 uiVars, playVars, capVars, promise>>

\* ------------------------------------------------------------- capture
RECURSIVE Sum(_)
Sum(q) == IF q = <<>> THEN 0 ELSE Head(q) + Sum(Tail(q))

\* the largest k in lo..hi with k * k <= x
RECURSIVE SqrtIn(_, _, _)
SqrtIn(x, lo, hi) ==
  IF lo = hi THEN lo
  ELSE LET mid == (lo + hi + 1) \div 2
       IN IF mid * mid <= x THEN SqrtIn(x, mid, hi) ELSE SqrtIn(x, lo, mid - 1)

\* Math.sqrt, rounded down to a whole number
ISqrt(x) == SqrtIn(x, 0, 8192)

\* the sum of the squared samples of a block, in millionths
SumSq(samples) == Sum([i \in 1..Len(samples) |-> samples[i] * samples[i]])

\* Math.sqrt(sum / inputData.length) in thousandths, rounded down
Rms(samples) == ISqrt(SumSq(samples) \div Len(samples))

\* the loudness shown for a block, in thousandths rounded down: the root mean
\* square in the transcriber, Math.min(rms * 5, 1) in the live components
Loudness(samples) ==
  IF variant = "Transcriber"
    THEN Rms(samples)
    ELSE Min(ISqrt((25 * SumSq(samples)) \div Len(samples)), 1000)

\* sessionPromise.then(session => session.sendRealtimeInput(...)) for block b of attempt a
ThenSend(a, b) ==
  IF promise[a] = "resolved"
    THEN sent' = [sent EXCEPT ![a] = Append(@, b)] /\ thens' = thens
    ELSE thens' = [thens EXCEPT ![a] = Append(@, b)] /\ sent' = sent

\* processor.onaudioprocess of attempt a, for a block of samples blk
OnAudioProcess(a, blk) ==
  /\ a \in procOn /\ a \in inCtxOpen
  /\ blockSeq < MaxBlocks
  /\ blockSeq' = blockSeq + 1
  /\ IF HasMute /\ capMuted[a]
       THEN UNCHANGED <<volumeLevel, frames, sent, thens>>
       ELSE /\ volumeLevel' = SetState(volumeLevel, Loudness(blk))
            /\ frames' = [frames EXCEPT ![a] =
                            Append(@, [id |-> blockSeq + 1, muted |-> isMuted,
                                       queued |-> promise[a] # "resolved"])]
            /\ ThenSend(a, blockSeq + 1)
  /\ UNCHANGED <<sigVars, fileVars, rendered, tearVars, keyVars, aiVolumeLevel, badFrames, voiceVars,
                 uiVars, isConnected, error, refVars, devVars, playVars, nAtt, st,
                 capMuted, promise, permVars, tornAt>>

\* ------------------------------------------------------------ playback
\* a scheduler that never resets a cursor that fell behind
StartTimeStale(cursor, now) == cursor

\* a scheduler that starts every frame at once
StartTimeNow(cursor, now) == now

\* the time at which a frame starts, from the cursor and the context's current time
StartTime(cursor, now) == IF cursor < now THEN now ELSE cursor

\* a scheduler that forgets to move the cursor past the frame
AdvanceNone(start, dur) == start

\* a scheduler that moves the cursor past the first half of the frame only
AdvanceHalf(start, dur) == start + dur \div 2

\* the cursor after a frame of duration dur was started at start
Advance(start, dur) == start + dur

\* audioBuffer.duration of a payload of len bytes, in sample periods
Duration(len) == len \div 2

\* the log keeps the most recent SchedWindow frames
Remember(log, rec) ==
  IF Len(log) < SchedWindow THEN Append(log, rec) ELSE Append(Tail(log), rec)

\* a payload that carries no whole 16-bit sample: empty, or of odd length
FramingError(len) == len = 0 \/ len % 2 # 0

\* the payload lengths that carry whole samples
FrameLens == {len \in PayloadLens : ~FramingError(len)}

\* an onmessage that plays the whole samples of an odd-length payload
OnMessageTruncates(a, len) ==
  /\ st[a] = "open" /\ HasOutput
  /\ nextStartTimeRef < MaxCursor
  /\ FramingError(len) => badFrames < MaxBadFrames
  /\ IF len = 0 \/ outputAudioContextRef = 0
       THEN UNCHANGED <<nextStartTimeRef, sched>>
       ELSE LET start == StartTime(nextStartTimeRef, outNow)
            IN /\ sched' = Remember(sched,
                     [ctx |-> outputAudioContextRef, at |-> outNow,
                      start |-> start, dur |-> Duration(len),
                      first |-> (sched = <<>>
                                 \/ sched[Len(sched)].ctx # outputAudioContextRef),
                      afterBad |-> badFrames])
               /\ nextStartTimeRef' = Advance(start, Duration(len))
  /\ badFrames' = IF FramingError(len) THEN badFrames + 1 ELSE badFrames
  /\ UNCHANGED <<sigVars, fileVars, rendered, tearVars, keyVars, aiVolumeLevel, voiceVars,
                 uiVars, isConnected, volumeLevel, error, refVars, devVars, outNow, capVars,
                 nAtt, st, capMuted, promise, thens, permVars, tornAt>>

\* onmessage of the channel of attempt a with an audio payload of len bytes
OnMessage(a, len) ==
  /\ st[a] = "open" /\ HasOutput
  /\ nextStartTimeRef < MaxCursor
  /\ FramingError(len) => badFrames < MaxBadFrames
  /\ IF len = 0 \/ outputAudioContextRef = 0
       THEN UNCHANGED <<nextStartTimeRef, sched>>
       ELSE IF len % 2 # 0
         THEN UNCHANGED <<nextStartTimeRef, sched>>
         ELSE LET start == StartTime(nextStartTimeRef, outNow)
              IN /\ sched' = Remember(sched,
                       [ctx |-> outputAudioContextRef, at |-> outNow,
                        start |-> start, dur |-> Duration(len),
                        first |-> (sched = <<>>
                                   \/ sched[Len(sched)].ctx # outputAudioContextRef),
                        afterBad |-> badFrames])
                 /\ nextStartTimeRef' = Advance(start, Duration(len))
  /\ badFrames' = IF FramingError(len) THEN badFrames + 1 ELSE badFrames
  /\ UNCHANGED <<sigVars, fileVars, rendered, tearVars, keyVars, aiVolumeLevel, voiceVars,
                 uiVars, isConnected, volumeLevel, error, refVars, devVars, outNow, capVars,
                 nAtt, st, capMuted, promise, thens, permVars, tornAt>>

\* the clock of the output context advances
Tick ==
  /\ outputAudioContextRef # 0
  /\ outNow < MaxTime
  /\ outNow' = outNow + 1
  /\ UNCHANGED <<sigVars, fileVars, rendered, tearVars, keyVars, aiVolumeLevel, badFrames, voiceVars,
                 uiVars, isConnected, volumeLevel, error, refVars, devVars,
                 nextStartTimeRef, sched, capVars, nAtt, st, capMuted, promise, thens,
                 permVars, tornAt>>


\* -------------------------------------------------------------- signal
\* every variable that the signal functions neither read nor write
sessionVars == <<variant, mounted, isConnected, isMuted, error, refVars, devVars, playVars,
                 capVars, nAtt, st, capMuted, promise, thens, permVars,
                 tornAt, voiceVars, badFrames, tearVars, keyVars, fileVars, rendered>>

\* a float sample is held in fixed point: One stands for the amplitude 1.0
One == 65536

\* element i of new Int16Array(buffer): two bytes, little-endian, two's complement
Int16At(b, i) ==
  LET u == b[2 * i - 1] + 256 * b[2 * i]
  IN IF u >= 32768 THEN u - 65536 ELSE u

\* int16[i] / 32768.0
DecodeSample(v) == (v * One) \div 32768

\* the Float32Array that onmessage fills from the payload bytes
Decode(b) == [i \in 1..(Len(b) \div 2) |-> DecodeSample(Int16At(b, i))]

Clamp(x) == IF x > One THEN One ELSE IF x < -One THEN -One ELSE x

\* n / d rounded to the nearest integer, halves upwards; d is even
Round(n, d) == (n + d \div 2) \div d

\* an encoder that cuts the fraction off instead of rounding
EncodeSampleFloor(x) == (Clamp(x) * 32767) \div One

\* one sample of float32ToInt16: clamp to [-1, 1], times 32767, round
EncodeSample(x) == Round(Clamp(x) * 32767, One)

float32ToInt16(samples) == [i \in 1..Len(samples) |-> EncodeSample(samples[i])]

\* the bytes of int16Data.buffer
Int16Buffer(ints) ==
  [k \in 1..(2 * Len(ints)) |->
     LET v == ints[(k + 1) \div 2]
         u == IF v < 0 THEN v + 65536 ELSE v
     IN IF k % 2 = 1 THEN u % 256 ELSE u \div 256]

\* the padding symbol of the transport text; the other symbols are 0..63
Pad == 64

\* the four symbols of a group of 24 bits
Sextets(n) == <<n \div 262144, (n \div 4096) % 64, (n \div 64) % 64, n % 64>>

\* an encoder that leaves out a last group of fewer than three bytes
RECURSIVE arrayBufferToBase64Whole(_)
arrayBufferToBase64Whole(b) ==
  IF Len(b) < 3 THEN <<>>
  ELSE Sextets(b[1] * 65536 + b[2] * 256 + b[3])
         \o arrayBufferToBase64Whole(SubSeq(b, 4, Len(b)))

\* toTransportText
RECURSIVE arrayBufferToBase64(_)
arrayBufferToBase64(b) ==
  CASE Len(b) = 0 -> <<>>
    [] Len(b) = 1 -> LET q == Sextets(b[1] * 65536) IN <<q[1], q[2], Pad, Pad>>
    [] Len(b) = 2 -> LET q == Sextets(b[1] * 65536 + b[2] * 256) IN <<q[1], q[2], q[3], Pad>>
    [] OTHER -> Sextets(b[1] * 65536 + b[2] * 256 + b[3])
                  \o arrayBufferToBase64(SubSeq(b, 4, Len(b)))

\* fromTransportText
RECURSIVE base64ToArrayBuffer(_)
base64ToArrayBuffer(t) ==
  IF Len(t) < 4 THEN <<>>
  ELSE LET v(i) == IF t[i] = Pad THEN 0 ELSE t[i]
           n == v(1) * 262144 + v(2) * 4096 + v(3) * 64 + v(4)
           all == <<n \div 65536, (n \div 256) % 256, n % 256>>
           keep == IF t[3] = Pad THEN 1 ELSE IF t[4] = Pad THEN 2 ELSE 3
       IN SubSeq(all, 1, keep) \o base64ToArrayBuffer(SubSeq(t, 5, Len(t)))

\* the playback loudness of an analyser reading, in thousandths
AiVolume(reading) ==
  IF variant = "LiveInterface"
    THEN Min((Sum(reading) * 1000) \div (Len(reading) * 50), 1200)
    ELSE (Sum(reading) * 1000) \div (Len(reading) * 255)

\* the byte buffers of at most n bytes over SampleBytes
BufsUpTo(n) == UNION {[1..k -> SampleBytes] : k \in 0..n}

\* every buffer of one 16-bit sample
OneSampleBufs == [1..2 -> 0..255]

Blocks == UNION {[1..k -> SampleLevels] : k \in 1..MaxSamples}

Readings == UNION {[1..k -> BinLevels] : k \in 1..MaxBins}

\* the payload bytes are decoded as onmessage does and encoded again as
\* onaudioprocess does
CodecRoundTrip ==
  /\ sigOp = "codec" /\ Len(buf) % 2 = 0
  /\ pcmOut' = Int16Buffer(float32ToInt16(Decode(buf)))
  /\ sigOp' = "codecDone"
  /\ UNCHANGED <<sessionVars, volumeLevel, aiVolumeLevel, buf, txtOut, block, bins>>

\* the bytes are encoded as onaudioprocess does and decoded as onmessage does
TextRoundTrip ==
  /\ sigOp = "text"
  /\ txtOut' = base64ToArrayBuffer(arrayBufferToBase64(buf))
  /\ sigOp' = "textDone"
  /\ UNCHANGED <<sessionVars, volumeLevel, aiVolumeLevel, buf, pcmOut, block, bins>>

\* React renders the component with the updates made since the last render.  When
\* isConnected / isStreaming differs from the one rendered last, the effect on it
\* runs again.  In the live components the cleanup cancels the frame requested and
\* the effect starts the visualiser loop with a first reading of the analyser when
\* connected, and clears the playback loudness otherwise.  In the transcriber the
\* cleanup calls stopStreaming() if the isStreaming rendered last was true, and the
\* effect calls checkApiKeyStatus().
Render(reading) ==
  /\ mounted
  /\ rendered # Latest
  /\ rendered' = Latest
  /\ CASE rendered.isConnected = isConnected -> UNCHANGED <<st, tornVars>>
       [] variant = "Transcriber" ->
            /\ keyChecks < MaxKeyChecks
            /\ IF rendered.isConnected
                 THEN Teardown(st, FALSE, 1)
                 ELSE /\ keyChecks' = keyChecks + 1
                      /\ UNCHANGED <<st, tearVars, isConnected, volumeLevel, aiVolumeLevel,
                                     refVars, devVars, thens, tornAt>>
       [] OTHER ->
            /\ animationFrameRef' = isConnected
            /\ aiVolumeLevel' = IF ~isConnected THEN 0
                                ELSE IF outputAnalyserRef # 0 THEN AiVolume(reading)
                                ELSE aiVolumeLevel
            /\ UNCHANGED <<st, tearVars, isConnected, volumeLevel, heldRefs, devVars, thens,
                           tornAt, keyChecks>>
  /\ UNCHANGED <<sigVars, fileVars, envVars, hasApiKey, selecting, badFrames, voiceVars,
                 uiVars, error, playVars, capVars, nAtt, capMuted, promise,
                 permVars>>

\* updateAiVolume / updateVisualizers: one animation frame of the visualiser loop,
\* with one reading of the analyser
UpdateAiVolume(reading) ==
  /\ mounted /\ animationFrameRef /\ HasOutput
  /\ outputAnalyserRef # 0
  /\ aiVolumeLevel' = AiVolume(reading)
  /\ UNCHANGED <<sessionVars, sigVars, volumeLevel>>


\* ------------------------------------------------------------ properties
\* the phase of the session
Phase ==
  IF isConnected THEN "Connected"
  ELSE IF \E a \in Attempts : InFlight(a) THEN "Connecting"
  ELSE "Idle"

\* every callback of attempt a has run
Settled(a) == ~InFlight(a) /\ st[a] # "closing" /\ promise[a] # "ready"

\* two frames of the log scheduled one after the other on the same output context
Consecutive(i) == i \in 1..(Len(sched) - 1) /\ sched[i].ctx = sched[i + 1].ctx

\* the ids of a sequence of frames
Ids(fs) == [i \in 1..Len(fs) |-> fs[i].id]

\* C1: a connect request made while the session is Connecting or Connected is a
\* no-op, so a new device acquisition only ever starts from Idle.
C1_ConnectOnlyFromIdle == [][nAtt' # nAtt => Phase = "Idle"]_vars

\* C2: an attempt that was on its way or connected when disconnect ran ends, once
\* all its callbacks have run, with its channel not open and with neither its input
\* nor its output context held by the session.
C2_DisconnectEndsIdle ==
  \A a \in Attempts :
    (tornAt[a] # "none" /\ Settled(a)) =>
      /\ st[a] \in {"failed", "closed"}
      /\ inputAudioContextRef # a
      /\ outputAudioContextRef # a

\* C3: when disconnect ran while the device acquisition of an attempt was in flight,
\* the result of that acquisition is discarded: no handle of the attempt is stored,
\* no channel is opened and no capture is started by it.
C3_AcquisitionDiscarded ==
  \A a \in Attempts :
    tornAt[a] = "acquiring" =>
      /\ streamRef # a
      /\ inputAudioContextRef # a
      /\ outputAudioContextRef # a
      /\ promise[a] = "none"
      /\ a \notin procOn

\* C4: within one output context the start times are non-decreasing in arrival
\* order, every start time is at least the context's current time at scheduling,
\* and the playback cursor never decreases.
C4_Monotone ==
  /\ [](/\ \A i \in 1..Len(sched) : sched[i].start >= sched[i].at
        /\ \A i \in 1..Len(sched) : Consecutive(i) => sched[i + 1].start >= sched[i].start)
  /\ [][nextStartTimeRef' >= nextStartTimeRef]_vars

\* a later frame arrived after a delay, the cursor was reset and the start times grew
C4_Witness ==
  /\ Len(sched) = 2 /\ Consecutive(1)
  /\ sched[2].at > sched[1].at
  /\ sched[2].start = sched[2].at
  /\ sched[2].start > sched[1].start + sched[1].dur

\* C5: when a frame arrives less than its predecessor's duration after the
\* predecessor arrived, it starts exactly the predecessor's duration after it.
C5_Gapless ==
  \A i \in 1..Len(sched) :
    (Consecutive(i) /\ sched[i + 1].at - sched[i].at < sched[i].dur) =>
      sched[i + 1].start = sched[i].start + sched[i].dur

\* a frame arrived while its predecessor was playing and was appended to it
C5_Witness ==
  /\ Len(sched) = 2 /\ Consecutive(1)
  /\ sched[2].at > sched[1].at
  /\ sched[2].at - sched[1].at < sched[1].dur
  /\ sched[2].start = sched[1].start + sched[1].dur

\* C6 as stated: when a frame arrives more than the last frame's duration after the
\* last frame arrived, it starts at the context's current time.
C6_ResetAfterSilence ==
  \A i \in 1..Len(sched) :
    (Consecutive(i) /\ sched[i + 1].at - sched[i].at > sched[i].dur) =>
      sched[i + 1].start = sched[i + 1].at

\* C6 amended: when a frame arrives after the scheduled end of the last frame has
\* passed, it starts at the context's current time; when it arrives before that end
\* it starts at that end.
C6_ResetWhenCursorBehind ==
  \A i \in 1..Len(sched) :
    Consecutive(i) =>
      /\ sched[i].start + sched[i].dur < sched[i + 1].at => sched[i + 1].start = sched[i + 1].at
      /\ sched[i].start + sched[i].dur >= sched[i + 1].at =>
           sched[i + 1].start = sched[i].start + sched[i].dur

\* a frame that had been queued behind another one ended, and the next frame was
\* started at the current time
C6_Witness ==
  /\ Len(sched) = 2 /\ Consecutive(1)
  /\ sched[1].start > sched[1].at
  /\ sched[1].start + sched[1].dur < sched[2].at
  /\ sched[2].start = sched[2].at

\* C7: the first frame of every session starts at the context's current time at its
\* arrival, and frames arriving with it start at the end of their predecessor.
C7_FirstFrameAtNow ==
  \A i \in 1..Len(sched) :
    /\ sched[i].first => sched[i].start = sched[i].at
    /\ (Consecutive(i) /\ sched[i + 1].at = sched[i].at) =>
         sched[i + 1].start = sched[i].start + sched[i].dur

\* C8: no block processed while the mute flag is set becomes a frame on the send path.
C8_MutedNotSent ==
  \A a \in Attempts : \A i \in 1..Len(frames[a]) : ~frames[a][i].muted

\* C9: a block processed while the mute flag is set leaves the capture loudness at 0.
C9_MutedLoudnessZero ==
  [][(blockSeq' = blockSeq + 1 /\ isMuted) => volumeLevel' = 0]_vars

\* C10: the frames handed to the channel's send are the captured frames in capture
\* order, each once; after the connect promise resolved every captured frame was sent.
C10_SendOrder ==
  \A a \in Attempts :
    /\ Len(sent[a]) <= Len(frames[a])
    /\ \A i \in 1..Len(sent[a]) : sent[a][i] = frames[a][i].id
    /\ promise[a] = "resolved" => sent[a] = Ids(frames[a])

\* two blocks captured before the connect promise resolved were sent after it
C10_Witness ==
  \E a \in Attempts :
    /\ Len(sent[a]) = 2
    /\ frames[a][1].queued /\ frames[a][2].queued

\* every ref of the session is null
NoneHeld ==
  /\ streamRef = 0 /\ inputAudioContextRef = 0 /\ outputAudioContextRef = 0
  /\ outputAnalyserRef = 0 /\ inputSourceRef = 0 /\ processorRef = 0 /\ sessionRef = 0

\* no stream, context or capture node made by an attempt is still running
NoneRunning == streamLive = {} /\ inCtxOpen = {} /\ outCtxOpen = {} /\ procOn = {}

\* C11: when the device acquisition of an attempt fails, live.connect is never called
\* for that attempt and the attempt never connects; the failure leaves the session
\* in Idle, not connected, with every handle released and with the device error
\* shown.
C11_AcquireFailBeforeConnect ==
  /\ [](\A a \in Attempts :
          st[a] = "failed" => promise[a] = "none" /\ sessionRef # a /\ a \notin procOn)
  /\ [][\A a \in Attempts :
          /\ st[a] = "failed" => st'[a] = "failed"
          /\ (Acquiring(a) /\ st'[a] = "failed") =>
               /\ ~isConnected'
               /\ NoneHeld'
               /\ mounted => error' \in DeviceErrors
               /\ Phase' = "Idle"]_vars

\* C12: in a session of one attempt, after a transport error the channel ends closed
\* with every device released, an unexpected close shows a message, and the message
\* of the transport error is not replaced by a later callback of that channel.
C12_TransportErrorSurfacedOnce ==
  /\ []((nAtt = 1 /\ error = "transport" /\ Settled(1)) =>
          st[1] = "closed" /\ Phase = "Idle" /\ NoneHeld /\ NoneRunning)
  /\ [][(nAtt = 1 /\ mounted /\ st[1] = "open" /\ st'[1] = "closed") => error' # "none"]_vars
  /\ [][(nAtt = 1 /\ error = "transport" /\ st'[1] # st[1]) => error' = "transport"]_vars

\* a step that runs a callback or a teardown of an attempt already started
CallbackStep == \E a \in 1..nAtt : st'[a] # st[a] \/ promise'[a] # promise[a]

\* the session is Idle and shows the message of a transport failure
FailedIdle == Phase = "Idle" /\ error \in {"transport", "closed"}

\* C13: no callback of a channel starts a connect attempt; and once a session has
\* ended in Idle with the message of a transport failure, no step but a connect
\* request of the user starts a connect attempt or takes the session out of Idle.
C13_NoAutoRetry ==
  /\ [][CallbackStep => nAtt' = nAtt]_vars
  /\ [][(FailedIdle /\ ~ConnectToLive) => nAtt' = nAtt /\ Phase' = "Idle"]_vars

\* C14: receiving a payload with a framing error changes neither the cursor nor the
\* schedule nor the session, its handles and its devices, and a frame received
\* afterwards starts at the later of the cursor and the current time and moves the
\* cursor to its end.
C14_FramingErrorDropped ==
  /\ [][badFrames' # badFrames =>
          UNCHANGED <<nextStartTimeRef, sched, isConnected, error, st, promise,
                      refVars, devVars>>]_vars
  /\ [][(badFrames > 0 /\ nextStartTimeRef' # nextStartTimeRef) =>
          LET f == sched'[Len(sched')]
          IN /\ f.afterBad = badFrames
             /\ f.start = (IF nextStartTimeRef < outNow THEN outNow ELSE nextStartTimeRef)
             /\ nextStartTimeRef' = f.start + f.dur]_vars

\* a frame was scheduled after an ill-framed payload had been received, and the
\* session is still connected with its output context held
C14_Witness ==
  /\ isConnected /\ outputAudioContextRef # 0
  /\ \E i \in 1..Len(sched) : sched[i].afterBad > 0 /\ sched[i].ctx = outputAudioContextRef

\* C15 as stated: encoding the decoded samples of an even-length buffer gives back
\* the buffer.
C15_RoundTripExact == sigOp = "codecDone" => pcmOut = buf

\* C15 amended: the result has the length of the buffer, every 16-bit sample of it
\* differs by at most 1 from the sample it came from, and is equal to it when that
\* sample lies strictly between -16384 and 16384.
C15_RoundTripNear ==
  sigOp = "codecDone" =>
    /\ Len(pcmOut) = Len(buf)
    /\ \A i \in 1..(Len(buf) \div 2) :
         LET v == Int16At(buf, i)
             w == Int16At(pcmOut, i)
         IN /\ w - v \in {-1, 0, 1}
            /\ (-16384 < v /\ v < 16384) => w = v

\* a negative sample inside the exact range came back unchanged
C15_Witness ==
  /\ sigOp = "codecDone" /\ Len(buf) = 2
  /\ Int16At(buf, 1) = -16383
  /\ pcmOut = buf

\* C16: decoding the transport text of a byte buffer gives back the buffer.
C16_TextRoundTrip == sigOp = "textDone" => txtOut = buf

\* a buffer whose length is not a multiple of three came back unchanged
C16_Witness ==
  /\ sigOp = "textDone" /\ Len(buf) = 4 /\ buf[4] = 255
  /\ txtOut = buf

\* C17: the capture loudness shown once an unmuted block has been processed is the
\* root mean square of the block, within one thousandth.
C17_ReadoutIsRms ==
  [][\A a \in Attempts : \A blk \in CaptureBlocks :
       (OnAudioProcess(a, blk) /\ mounted /\ ~isMuted) =>
         volumeLevel' - Rms(blk) \in {-1, 0, 1}]_vars

\* C18: the capture loudness and the playback loudness lie between 0 and 1.
C18_LoudnessInUnit ==
  /\ 0 <= volumeLevel /\ volumeLevel <= 1000
  /\ 0 <= aiVolumeLevel /\ aiVolumeLevel <= 1000

\* C19: a change of the voice made while the session is connected releases every
\* handle, clears the connected flag and requests the close of the channel held; the
\* permission query issued by that change starts, when it settles, a connect attempt
\* with the new voice; and the voice of an attempt never changes.
C19_ChangeWhileConnected ==
  /\ [][(selectedVoice' # selectedVoice /\ isConnected) =>
          /\ NoneHeld' /\ ~isConnected'
          /\ sessionRef # 0 => closes'[sessionRef] + ClosesIn(thens'[sessionRef]) = 1
          /\ permLive'[permPending'] /\ permVoice'[permPending'] = selectedVoice']_vars
  /\ [][\A a \in 1..nAtt : voice'[a] = voice[a]]_vars
  /\ [][\A i \in 1..permPending : \A g \in PermStates :
          (PermResult(i, g) /\ permLive[i]) =>
            nAtt' = nAtt + 1 /\ voice'[nAtt'] = permVoice[i]]_vars

\* C20: whenever the session is Idle and no channel is left open or closing, no
\* handle is held and no stream, context or capture node is running.
C20_IdleHoldsNothing ==
  (Phase = "Idle" /\ \A a \in Attempts : st[a] \notin {"open", "closing"}) =>
    NoneHeld /\ NoneRunning

\* the place the teardown order gives to a step; stopping the stream has no place in it
StepRank(step) ==
  CASE step \in {"processor", "source"} -> 1
    [] step = "analyser" -> 2
    [] step \in {"inputContext", "outputContext"} -> 3
    [] step = "channel" -> 4
    [] OTHER -> 0

\* C21: every teardown first disconnects the capture nodes, then stops the output
\* analysis tap, then releases the two device contexts, then closes the channel.
C21_TeardownOrder ==
  \A i \in 1..Len(tearLog) : \A j \in 1..Len(tearLog) :
    (i < j /\ StepRank(tearLog[i]) > 0 /\ StepRank(tearLog[j]) > 0) =>
      StepRank(tearLog[i]) <= StepRank(tearLog[j])

\* a step of SessionStep in which a handler or an effect cleanup calls disconnect /
\* stopStreaming
TeardownCall ==
  \/ \E a \in Attempts, k \in ErrorKinds : AcquireFail(a, k)
  \/ \E a \in Attempts : (\E m \in ErrorTexts : OnError(a, m)) \/ OnClose(a)
  \/ EndCall
  \/ Unmount /\ (variant = "Transcriber" => rendered.isConnected)
  \/ variant = "Transcriber" /\ rendered.isConnected /\ ~isConnected
       /\ \E r \in FrameReadings : Render(r)
  \/ ~apiKeySet /\ \E a \in Attempts, txt \in KeyTexts : KeyCheckDone(a, TRUE, txt)
  \/ ~apiKeySet /\ variant = "LiveVoice"
       /\ (ConnectToLive \/ \E i \in 1..MaxQueries : PermResult(i, "granted"))

\* the session is as a teardown leaves it
TornDown == NoneHeld /\ ~isConnected /\ volumeLevel = 0 /\ aiVolumeLevel = 0

\* C22: a disconnect that runs when the session is already torn down, whoever calls
\* it, finds nothing to act on: it fails at no call, changes neither the handles, the
\* devices, the flags, the loudness nor any channel's promise and reactions, and
\* calls no close; no disconnect ever fails at a call, and over the whole session
\* close is called or queued at most once on each channel.
C22_TeardownIdempotent ==
  /\ [][(TeardownCall /\ TornDown) =>
          /\ tearLog' = <<>>
          /\ raised' = raised
          /\ UNCHANGED <<refVars, devVars, isConnected, volumeLevel, aiVolumeLevel,
                         promise, thens, closes, capVars, playVars>>]_vars
  /\ [](~raised)
  /\ [](\A a \in Attempts : closes[a] + ClosesIn(thens[a]) <= 1)

\* the channel failed and its session was torn down; End Call, still rendered, was
\* clicked before the next render, and the disconnect it ran found nothing to act on
C22_Witness ==
  /\ variant = "LiveInterface" /\ mounted
  /\ nAtt = 1 /\ st[1] = "closing" /\ closes[1] = 1
  /\ error = "transport" /\ rendered.error = "none"
  /\ tearLog = <<>> /\ TornDown

\* the stream, the contexts and the capture node made by attempt a that still run
RunningOf(a) ==
  (IF a \in streamLive THEN {"stream"} ELSE {})
    \cup (IF a \in inCtxOpen THEN {"inputContext"} ELSE {})
    \cup (IF a \in outCtxOpen THEN {"outputContext"} ELSE {})
    \cup (IF a \in procOn THEN {"processor"} ELSE {})

\* C23: when a connect attempt fails, by a device error during its acquisition or by
\* an error of its channel before it opened, the teardown run by the failure leaves
\* no stream, context or capture node of that attempt running.
C23_FailureReleasesAll ==
  [][\A a \in Attempts :
       (\/ Acquiring(a) /\ st'[a] = "failed"
        \/ st[a] = "opening" /\ st'[a] = "closing") => RunningOf(a)' = {}]_vars

\* C24: a frame is handed to a channel's send only while the session is Connected
\* and no teardown has run since the channel's attempt started.
C24_SendOnlyConnected ==
  [][\A a \in Attempts :
       sent'[a] # sent[a] => isConnected /\ st[a] = "open" /\ tornAt[a] = "none"]_vars

\* C25: of two frames scheduled one after the other on the same output context the
\* earlier one ends no later than the later one starts, and the frame scheduled last
\* ends no later than the playback cursor; with the start times non-decreasing, the
\* playback intervals of one context are pairwise disjoint.
C25_NoOverlap ==
  /\ \A i \in 1..Len(sched) :
       Consecutive(i) => /\ sched[i].start <= sched[i + 1].start
                         /\ sched[i].start + sched[i].dur <= sched[i + 1].start
  /\ sched # <<>> =>
       sched[Len(sched)].start + sched[Len(sched)].dur <= nextStartTimeRef

\* a long frame was still playing when the next one arrived, and the next one was
\* placed at its end
C25_Witness ==
  /\ Len(sched) = 2 /\ Consecutive(1)
  /\ sched[1].dur = 2 /\ sched[2].dur = 2
  /\ sched[2].at > sched[1].start /\ sched[2].at < sched[1].start + sched[1].dur
  /\ sched[2].start = sched[1].start + 2
  /\ nextStartTimeRef = sched[2].start + 2

\* the reason that the message shown has to give for a platform error of name k
ReasonOf(k) ==
  CASE k \in {"NotAllowedError", "PermissionDeniedError"} -> "permission-denied"
    [] k \in {"NotFoundError", "DevicesNotFoundError"} -> "not-found"
    [] k \in {"NotReadableError", "TrackStartError"} -> "busy"
    [] OTHER -> "unknown"

\* C26: when the device acquisition of an attempt fails with a platform error, the
\* message shown gives the reason of that error: permission-denied, not-found, busy
\* or unknown.
C26_DeviceReasonSurfaced ==
  [][\A a \in Attempts : \A k \in ErrorKinds :
       (AcquireFail(a, k) /\ mounted) => error' = ReasonOf(k)]_vars

\* attempt b started after the teardown of attempt a and is on its way or has its
\* channel open, and no teardown has run since it started
NewerSession(a, b) == tornAt[a] # "none" /\ b > a /\ Live(b) /\ tornAt[b] = "none"

\* the refs that hold an object of attempt b
RefsOf(b) == {i \in 1..7 : refVars[i] = b}

\* C27: a close or error callback of a channel whose session was torn down, run
\* after a newer attempt has started, leaves the newer attempt alone: every ref that
\* holds an object of the newer attempt still holds it, its devices still run, its
\* position and its promise reactions are as before, no close is requested on it and
\* the session stays connected if it was.
C27_NoCrossSessionTeardown ==
  [][\A a \in Attempts : \A b \in Attempts :
       ((OnClose(a) \/ \E m \in ErrorTexts : OnError(a, m)) /\ NewerSession(a, b)) =>
         /\ RefsOf(b)' = RefsOf(b)
         /\ RunningOf(b)' = RunningOf(b)
         /\ st'[b] = st[b] /\ thens'[b] = thens[b] /\ closes'[b] = closes[b]
         /\ isConnected' = isConnected]_vars

\* C28: an audio payload delivered by a channel whose session was torn down after
\* its devices had been acquired is not scheduled and does not move the playback
\* cursor.
C28_LateFrameDropped ==
  [][\A a \in Attempts : \A len \in PayloadLens :
       (OnMessage(a, len) /\ tornAt[a] = "live") =>
         UNCHANGED <<sched, nextStartTimeRef>>]_vars

\* C29: whenever the connected flag is set, the stream, the input context and the
\* channel handle are held; an onopen that runs after a teardown of its attempt
\* neither sets the flag nor starts capture.
C29_ConnectedHoldsSession ==
  /\ [](isConnected => streamRef # 0 /\ inputAudioContextRef # 0 /\ sessionRef # 0)
  /\ [][\A a \in Attempts :
          (OnOpen(a) /\ tornAt[a] # "none") =>
            isConnected' = isConnected /\ procOn' = procOn]_vars

\* C30: when the close callback of a channel runs after the session was ended by
\* the user on request, with no message shown, no message is shown afterwards.
C30_UserDisconnectSilent ==
  [][\A a \in Attempts :
       (OnClose(a) /\ st[a] = "closing" /\ closes[a] = 1 /\ error = "none") =>
         error' = "none"]_vars

\* ------------------------------------------------------ specifications
\* every step of the three components
Next ==
  \/ ConnectToLive
  \/ \E a \in Attempts, ok \in BOOLEAN, txt \in KeyTexts : KeyCheckDone(a, ok, txt)
  \/ \E a \in Attempts, suspended \in BOOLEAN : AcquireOk(a, suspended)
  \/ \E a \in Attempts : ResumeDone(a)
  \/ \E a \in Attempts, k \in ErrorKinds : AcquireFail(a, k)
  \/ \E a \in Attempts : OnOpen(a)
  \/ \E a \in Attempts : Resolve(a)
  \/ \E a \in Attempts, m \in ErrorTexts : OnError(a, m)
  \/ \E a \in Attempts : OnClose(a)
  \/ EndCall
  \/ ToggleMute
  \/ Unmount
  \/ \E r \in FrameReadings : Render(r)
  \/ \E v \in Voices : VoiceChange(v)
  \/ \E i \in 1..MaxQueries, g \in PermStates : PermResult(i, g)
  \/ \E ok \in BOOLEAN : KeyStatusDone(ok)
  \/ SelectApiKey
  \/ SelectKeyDone
  \/ FileUpload
  \/ TranscribeFile
  \/ \E ok \in BOOLEAN : FileKeyDone(ok)
  \/ \E r \in FileResults : FileDone(r)
  \/ \E a \in Attempts, blk \in CaptureBlocks : OnAudioProcess(a, blk)
  \/ \E a \in Attempts, len \in PayloadLens : OnMessage(a, len)
  \/ Tick
  \/ \E r \in FrameReadings : UpdateAiVolume(r)

\* the three components with everything that can happen to them
Spec == Init /\ [][Next]_vars

\* The specifications below each keep a part of the environment still, so that the
\* rest can be explored in full.
\* SessionStep: connecting, the callbacks that open, fail and close a channel, the
\* renders, the visualiser loop and the teardown of each of the three components; no
\* audio arrives, no capture block is delivered, the output clock stands still, and
\* neither the voice, the mute flag, the key dialog nor a file is touched
SessionStep ==
  \/ ConnectToLive
  \/ \E a \in Attempts, ok \in BOOLEAN, txt \in KeyTexts : KeyCheckDone(a, ok, txt)
  \/ \E a \in Attempts, suspended \in BOOLEAN : AcquireOk(a, suspended)
  \/ \E a \in Attempts : ResumeDone(a)
  \/ \E a \in Attempts, k \in ErrorKinds : AcquireFail(a, k)
  \/ \E a \in Attempts : OnOpen(a)
  \/ \E a \in Attempts : Resolve(a)
  \/ \E a \in Attempts, m \in ErrorTexts : OnError(a, m)
  \/ \E a \in Attempts : OnClose(a)
  \/ EndCall
  \/ Unmount
  \/ \E r \in FrameReadings : Render(r)
  \/ \E i \in 1..MaxQueries, g \in PermStates : PermResult(i, g)
  \/ \E ok \in BOOLEAN : KeyStatusDone(ok)
  \/ \E r \in FrameReadings : UpdateAiVolume(r)

SpecSession == Init /\ [][SessionStep]_vars

\* a reading of the analyser while a loud output plays
Loud == <<255>>

\* the session steps of a component whose devices and whose channel do not fail,
\* with the renders and with the visualiser loop reading a loud output
SteadyStep ==
  \/ ConnectToLive
  \/ \E a \in Attempts : AcquireOk(a, FALSE)
  \/ \E a \in Attempts : OnOpen(a)
  \/ \E a \in Attempts : Resolve(a)
  \/ \E a \in Attempts : OnClose(a)
  \/ EndCall
  \/ Render(Loud)
  \/ UpdateAiVolume(Loud)

\* the same, with one kind of device failure and of transport error
MountedStep ==
  \/ SteadyStep
  \/ \E a \in Attempts : AcquireFail(a, "NotAllowedError")
  \/ \E a \in Attempts : OnError(a, "other")

\* the same, and the unmount
LiveStep ==
  \/ MountedStep
  \/ Unmount

\* part_006 with its voice selection, its devices and its channel working: every
\* change of the voice runs the effect on [selectedVoice] again
InitVoice == Init /\ variant = "LiveVoice" /\ selectedVoice = "Kore"

NextVoice ==
  \/ SteadyStep
  \/ \E v \in Voices : VoiceChange(v)
  \/ \E i \in 1..MaxQueries, g \in PermStates : PermResult(i, g)

SpecVoice == InitVoice /\ [][NextVoice]_vars

\* LiveInterface.tsx with its playback scheduler and its visualiser loop, receiving
\* well-framed payloads while the output clock runs; the component stays mounted
\* and its channel does not fail
InitPlayback == Init /\ variant = "LiveInterface"

NextPlayback ==
  \/ SteadyStep
  \/ \E a \in Attempts : AcquireFail(a, "NotAllowedError")
  \/ \E a \in Attempts, len \in FrameLens : OnMessage(a, len)
  \/ Tick

SpecPlayback == InitPlayback /\ [][NextPlayback]_vars

\* the same, receiving well-framed and ill-framed payloads
NextFraming ==
  \/ SteadyStep
  \/ \E a \in Attempts : AcquireFail(a, "NotAllowedError")
  \/ \E a \in Attempts, len \in PayloadLens : OnMessage(a, len)
  \/ Tick

SpecFraming == InitPlayback /\ [][NextFraming]_vars

\* LiveInterface.tsx and Transcriber.tsx with their capture pipeline and the mute
\* button, while the selected key stays selected
InitCapture ==
  /\ Init
  /\ variant \in {"LiveInterface", "Transcriber"}
  /\ apiKeySet
  /\ variant = "Transcriber" => aistudio

NextCapture ==
  \/ LiveStep
  \/ \E a \in Attempts : KeyCheckDone(a, TRUE, "empty")
  \/ \E a \in Attempts : AcquireOk(a, TRUE)
  \/ \E a \in Attempts : ResumeDone(a)
  \/ ToggleMute
  \/ \E a \in Attempts, blk \in CaptureBlocks : OnAudioProcess(a, blk)
  \/ KeyStatusDone(TRUE)

SpecCapture == InitCapture /\ [][NextCapture]_vars

\* Transcriber.tsx with its key dialog and its file transcription, and streaming
\* attempts up to their device acquisition
InitFile == Init /\ variant = "Transcriber"

NextFile ==
  \/ ConnectToLive
  \/ \E a \in Attempts, k \in ErrorKinds : AcquireFail(a, k)
  \/ Unmount
  \/ \E r \in FrameReadings : Render(r)
  \/ \E a \in Attempts, ok \in BOOLEAN, txt \in KeyTexts : KeyCheckDone(a, ok, txt)
  \/ \E ok \in BOOLEAN : KeyStatusDone(ok)
  \/ SelectApiKey
  \/ SelectKeyDone
  \/ FileUpload
  \/ TranscribeFile
  \/ \E ok \in BOOLEAN : FileKeyDone(ok)
  \/ \E r \in FileResults : FileDone(r)

SpecFile == InitFile /\ [][NextFile]_vars

\* the codec and the transport text, each applied once to one input, and the two
\* loudness readouts in a session that connects and then processes one kind of
\* capture block or takes one kind of analyser reading
InitSignal ==
  /\ InitSession
  /\ apiKeySet
  /\ variant = "Transcriber" => aistudio
  /\ \/ /\ sigOp = "codec" /\ variant = "LiveInterface"
        /\ buf \in OneSampleBufs \cup {b \in BufsUpTo(MaxBytes) : Len(b) % 2 = 0}
        /\ block = <<>> /\ bins = <<>>
     \/ /\ sigOp = "text" /\ variant = "LiveInterface"
        /\ buf \in BufsUpTo(MaxBytes)
        /\ block = <<>> /\ bins = <<>>
     \/ /\ sigOp = "capture"
        /\ block \in Blocks
        /\ buf = <<>> /\ bins = <<>>
     \/ /\ sigOp = "playback" /\ HasOutput
        /\ bins \in Readings
        /\ buf = <<>> /\ block = <<>>

\* the steps that bring a session to Connected
ConnectStep ==
  \/ ConnectToLive
  \/ KeyStatusDone(TRUE)
  \/ \E r \in FrameReadings : Render(r)
  \/ \E a \in Attempts : KeyCheckDone(a, TRUE, "empty")
  \/ \E a \in Attempts : AcquireOk(a, FALSE)
  \/ \E a \in Attempts : OnOpen(a)
  \/ \E a \in Attempts : Resolve(a)

NextSignal ==
  \/ CodecRoundTrip
  \/ TextRoundTrip
  \/ sigOp \in {"capture", "playback"} /\ ConnectStep
  \/ sigOp = "capture" /\ \E a \in Attempts : OnAudioProcess(a, block)
  \/ sigOp = "playback" /\ UpdateAiVolume(bins)

SpecSignal == InitSignal /\ [][NextSignal]_vars

====
